---- MODULE Spec2Model ----
(***************************************************************************)
(* A model of candle_cost_ui.py: the session state of the cost calculator, *)
(* its four persisted JSON documents, and the handlers of its buttons.     *)
(*                                                                         *)
(* Conventions                                                             *)
(*  - A Python str is a sequence of one-character strings.                 *)
(*  - A Python float is an exact rational [n |-> Int, d |-> Nat \ {0}] in  *)
(*    lowest terms; the rounding of IEEE doubles is not modelled.          *)
(*  - A Python dict is a function; a dict with fixed keys is a record.     *)
(*  - A JSON value whose type the code inspects is a tagged record (JNum,  *)
(*    JStr, JNull, JBool).                                                 *)
(***************************************************************************)
EXTENDS Integers, Sequences, FiniteSets, TLC

VARIABLES
    phase,           \* "new": st.session_state is empty; "running": initialised
    scents,          \* st.session_state.scents         key -> cost per oz
    custom_scents,   \* st.session_state.custom_scents   key -> cost per oz
    blends,          \* st.session_state.blends          name -> [scents: key -> pct]
    containers,      \* st.session_state.containers      id -> container record
    inventory,       \* st.session_state.inventory       id -> item record
    scentsDoc,       \* scents.json
    blendsDoc,       \* blends.json
    containersDoc,   \* containers.json
    inventoryDoc,    \* inventory.json
    now,             \* the wall clock when it was last read, in half seconds
    last,            \* the last run: the button pressed and the message shown
    steps,           \* number of runs so far
    disk,            \* "ok", or how writing a file fails: "readonly", "full"
    added,           \* history: key -> the cost most recently added for it
    peer             \* the st.session_state of a second browser session

session == <<scents, custom_scents, blends, containers, inventory>>
docs == <<scentsDoc, blendsDoc, containersDoc, inventoryDoc>>
vars == <<phase, scents, custom_scents, blends, containers, inventory,
          scentsDoc, blendsDoc, containersDoc, inventoryDoc, now, last, steps,
          disk, added, peer>>

----------------------------------------------------------------------------
(* Bounds of the model *)

MaxSteps == 2
MaxQty == 1
MaxClock == 2

----------------------------------------------------------------------------
(* Rationals *)

Abs(x) == IF x < 0 THEN -x ELSE x

RECURSIVE Gcd(_, _)
Gcd(a, b) == IF b = 0 THEN a ELSE Gcd(b, a % b)

\* n/d in lowest terms with a positive denominator (d # 0)
Rat(n, d) ==
    LET g == Gcd(Abs(n), Abs(d))
        s == IF d < 0 THEN -1 ELSE 1
    IN [n |-> (s * n) \div g, d |-> (s * d) \div g]

Zero == [n |-> 0, d |-> 1]
FromInt(i) == [n |-> i, d |-> 1]

RAdd(x, y) ==
    LET g == Gcd(x.d, y.d)
    IN Rat(x.n * (y.d \div g) + y.n * (x.d \div g), (x.d \div g) * y.d)
RNeg(x) == [n |-> -x.n, d |-> x.d]
RSub(x, y) == RAdd(x, RNeg(y))
RMul(x, y) ==
    LET a == Rat(x.n, y.d)
        b == Rat(y.n, x.d)
    IN [n |-> a.n * b.n, d |-> a.d * b.d]
\* y # 0
RDiv(x, y) == RMul(x, Rat(y.d, y.n))
\* x / y in Python: [ok |-> FALSE] stands for ZeroDivisionError
py_div(x, y) == IF y.n = 0 THEN [ok |-> FALSE] ELSE [ok |-> TRUE, v |-> RDiv(x, y)]
RAbs(x) == [n |-> Abs(x.n), d |-> x.d]
RLe(x, y) == x.n * y.d <= y.n * x.d
RLt(x, y) == x.n * y.d < y.n * x.d
RPos(x) == x.n > 0

----------------------------------------------------------------------------
(* Strings *)

IsSpace(c) == c = " "

RECURSIVE lstrip(_)
lstrip(s) == IF s # <<>> /\ IsSpace(Head(s)) THEN lstrip(Tail(s)) ELSE s

RECURSIVE rstrip(_)
rstrip(s) ==
    IF s # <<>> /\ IsSpace(s[Len(s)]) THEN rstrip(SubSeq(s, 1, Len(s) - 1)) ELSE s

\* str.strip()
strip(s) == rstrip(lstrip(s))

LowerChar(c) ==
    CASE c = "A" -> "a"
      [] c = "L" -> "l"
      [] OTHER -> c

\* str.lower()
lower(s) == [i \in 1..Len(s) |-> LowerChar(s[i])]

\* str.replace(" ", "_")
replace_space(s) == [i \in 1..Len(s) |-> IF s[i] = " " THEN "_" ELSE s[i]]

\* name.strip().lower().replace(" ", "_")
make_key(name) == replace_space(lower(strip(name)))

----------------------------------------------------------------------------
(* Program constants *)

SCENT_LAVENDER == <<"l", "a", "v", "e", "n", "d", "e", "r">>
SCENT_LEATHER == <<"l", "e", "a", "t", "h", "e", "r">>
SCENT_BONFIRE == <<"b", "o", "n", "f", "i", "r", "e", "_", "e", "m", "b", "e", "r", "s">>
SCENT_EUCALYPTUS ==
    <<"w", "h", "i", "t", "e", "_", "e", "u", "c", "a", "l", "y", "p", "t", "u", "s">>
SCENT_SANDALWOOD == <<"s", "a", "n", "d", "a", "l", "w", "o", "o", "d">>

BASE_SCENTS ==
    (SCENT_BONFIRE :> Rat(3887, 1600)) @@
    (SCENT_LAVENDER :> Rat(2471, 1500)) @@
    (SCENT_LEATHER :> Rat(2763, 1600)) @@
    (SCENT_EUCALYPTUS :> Rat(3220, 1600)) @@
    (SCENT_SANDALWOOD :> Rat(2591, 1500))

SHIPPING_PER_WICK == Rat(750, 3400)

BASE_WICKS ==
    [wood_30mm |-> RAdd(Rat(125, 100), SHIPPING_PER_WICK),
     wood_20mm |-> RAdd(Rat(825, 1000), SHIPPING_PER_WICK),
     cdn12     |-> RAdd(Rat(750, 1000), SHIPPING_PER_WICK),
     cdn16     |-> RAdd(Rat(500, 1000), SHIPPING_PER_WICK)]

DEFAULT_WAX_COST_PER_OZ == Rat(15764, 72000)
DEFAULT_WATER_TO_WAX_RATIO == Rat(90, 100)
DEFAULT_FRAGRANCE_LOAD == Rat(8, 100)

----------------------------------------------------------------------------
(* JSON values and the persistence helpers *)

JNum(x) == [t |-> "num", v |-> x]
JInt(i) == [t |-> "int", v |-> i]
JStr(s) == [t |-> "str", s |-> s]
JBool(b) == [t |-> "bool", b |-> b]
JNull == [t |-> "null"]
JList == [t |-> "list"]
JObj(d) == [t |-> "obj", v |-> d]

Absent == [kind |-> "absent"]
Corrupt == [kind |-> "corrupt"]
Object(val) == [kind |-> "object", val |-> val]
\* the file parses to a JSON value that is not an object
NotObject(v) == [kind |-> "value", val |-> v]

EmptyDict == <<>>

\* dict with d[k] = v set (d[k] = v in Python)
Put(d, k, v) == [x \in DOMAIN d \cup {k} |-> IF x = k THEN v ELSE d[x]]
\* dict without key k (del d[k] in Python, k in d)
Del(d, k) == [x \in DOMAIN d \ {k} |-> d[x]]
\* d1.update(d2)
Update(d1, d2) == [x \in DOMAIN d1 \cup DOMAIN d2 |-> IF x \in DOMAIN d2 THEN d2[x] ELSE d1[x]]

\* load_json(path, default): the default when the file is missing or does not parse
load_json(doc, default) ==
    IF doc.kind = "absent" THEN default
    ELSE IF doc.kind = "corrupt" THEN default
    ELSE doc.val

\* save_json(path, data): what the file holds after json.dump wrote data
save_json(data) == Object(data)

RECURSIVE int_len(_)
\* the number of digits of the natural number n
int_len(n) == IF n < 10 THEN 1 ELSE 1 + int_len(n \div 10)

RECURSIVE places(_, _, _)
\* the decimals of r/d (0 <= r < d) after the first k, by long division; repr of
\* a float gives the shortest text that reads back, 16 decimals where the
\* expansion does not end
places(r, d, k) == IF r = 0 \/ k = 16 THEN k ELSE places((r * 10) % d, d, k + 1)

\* len(repr(x)) of a float: sign, integer part, point, at least one decimal
float_len(x) ==
    LET n == Abs(x.n)
        k == places(n % x.d, x.d, 0)
    IN (IF x.n < 0 THEN 1 ELSE 0) + int_len(n \div x.d) + 1 + (IF k = 0 THEN 1 ELSE k)

\* len() of the field names, wick names and shapes
NAME_LEN(s) ==
    CASE s \in {"sku"} -> 3
      [] s \in {"name"} -> 4
      [] s \in {"shape", "notes", "cdn12", "cdn16", "Round", "Other"} -> 5
      [] s \in {"scents", "wax_oz", "Square"} -> 6
      [] s \in {"supplier", "quantity", "water_oz"} -> 8
      [] s \in {"wood_30mm", "wood_20mm", "Hexagonal"} -> 9
      [] s \in {"blend_name"} -> 10
      [] s \in {"wick_config", "Rectangular"} -> 11
      [] s \in {"product_name", "container_id", "batch_number", "target_price",
                "fragrance_oz"} -> 12
      [] s \in {"cost_per_unit", "material_cost"} -> 13
      [] s \in {"container_cost"} -> 14
      [] s \in {"production_date"} -> 15
      [] s \in {"capacity_water_oz"} -> 17

RECURSIVE json_len(_, _, _)
RECURSIVE entries_len(_, _, _, _)
\* the length of the text json.dump(..., indent=2) writes for the value j of
\* field f at nesting depth: f is "/" for the document, "*" for an entry of it
json_len(j, f, depth) ==
    CASE j.t = "num" -> float_len(j.v)
      [] j.t = "int" -> (IF j.v < 0 THEN 1 ELSE 0) + int_len(Abs(j.v))
      [] j.t = "str" -> 2 + (IF f = "shape" THEN NAME_LEN(j.s) ELSE Len(j.s))
      [] j.t = "obj" ->
            IF DOMAIN j.v = {} THEN 2
            ELSE 1 + entries_len(j.v, f, depth + 1, DOMAIN j.v)
                 + (Cardinality(DOMAIN j.v) - 1) + 1 + 2 * depth + 1

\* the entries S of the object d: newline, indent, key in quotes, ": ", value
entries_len(d, f, depth, S) ==
    IF S = {} THEN 0
    ELSE LET k == CHOOSE x \in S : TRUE
             by_text == f \in {"/", "scents"}
         IN 1 + 2 * depth + 2 + (IF by_text THEN Len(k) ELSE NAME_LEN(k)) + 2
            + json_len(d[k], IF by_text THEN "*" ELSE k, depth)
            + entries_len(d, f, depth, S \ {k})

\* the length of the text of a document that a saver wrote
text_len(content) == json_len(JObj(content.val), "/", 0)

\* no second session
NoPeer == [phase |-> "none"]

\* the number, 1 or 2, of the session whose run this is, when there are two
me == 3 - peer.id

\* Each session runs its script in a thread of its own, so that two runs of
\* save_json can overlap. A file that some run has opened and not yet closed
\* has, beside what is on the disk (kind, val), the buffers not yet written
\* (pending) and the longest text written since the file was last emptied
\* (extent, Absent for none).
InFlight(doc) == "pending" \in DOMAIN doc

\* the session by has opened the file and not closed it
OpenedBy(doc, by) == InFlight(doc) /\ \E p \in doc.pending : p.by = by

OnDisk(content, pending, extent) ==
    [kind |-> content.kind,
     val |-> IF content.kind = "object" THEN content.val ELSE EmptyDict,
     pending |-> pending, extent |-> extent]

\* open(path, "w") of save_json: the file is emptied; what json.dump writes
\* stays in the buffer of this file object until it is closed
open_file(doc, content) ==
    OnDisk(Corrupt,
           (IF InFlight(doc) THEN doc.pending ELSE {}) \cup {[by |-> me, data |-> content]},
           Absent)

\* The buffer is written at offset 0 of the file and nothing is cut off. Over
\* a text that is not longer the file becomes the content; over a longer text
\* the file is the content followed by the rest of that text, which does not
\* parse (extra data after the JSON value).
written_over(extent, content) ==
    IF extent = Absent \/ text_len(content) >= text_len(extent)
    THEN [disk |-> content, extent |-> content]
    ELSE [disk |-> Corrupt, extent |-> extent]

\* the file after the end of "with open(...)" in the run of this session
closed(doc) ==
    IF ~OpenedBy(doc, me) THEN doc
    ELSE LET p == CHOOSE x \in doc.pending : x.by = me
             rest == doc.pending \ {p}
             o == written_over(doc.extent, p.data)
         IN IF rest = {} THEN o.disk ELSE OnDisk(o.disk, rest, o.extent)

\* save_json that leaves the file as it was
write_file_skipped(doc, content) == doc

\* save_json: open(path, "w") and json.dump under try. On a read-only disk open
\* raises and the file stays as it is; on a full disk open has emptied the file
\* when the write raises.
write_file(doc, content) ==
    CASE disk = "readonly" -> doc
      [] disk = "full" -> Corrupt
      [] peer # NoPeer -> open_file(doc, content)
      [] OTHER -> content

Digits == {"0", "1", "2", "3", "4", "5", "6", "7", "8", "9"}
DigitVal(c) ==
    CASE c = "0" -> 0 [] c = "1" -> 1 [] c = "2" -> 2 [] c = "3" -> 3 [] c = "4" -> 4
      [] c = "5" -> 5 [] c = "6" -> 6 [] c = "7" -> 7 [] c = "8" -> 8 [] c = "9" -> 9

RECURSIVE DigitsVal(_)
DigitsVal(s) == IF s = <<>> THEN 0 ELSE 10 * DigitsVal(SubSeq(s, 1, Len(s) - 1)) + DigitVal(s[Len(s)])

IsDigits(s) == s # <<>> /\ \A i \in 1..Len(s) : s[i] \in Digits

\* int(v) in place of float(v): a number loses its fraction
to_float_truncating(v) ==
    CASE v.t = "num" -> [ok |-> TRUE, v |-> FromInt(v.v.n \div v.v.d)]
      [] v.t = "int" -> [ok |-> TRUE, v |-> FromInt(v.v)]
      [] v.t = "bool" -> [ok |-> TRUE, v |-> IF v.b THEN FromInt(1) ELSE Zero]
      [] OTHER -> [ok |-> FALSE]

\* float(v) of a JSON value: [ok |-> FALSE] stands for ValueError / TypeError.
\* Of the strings, the decimal integers with an optional sign are parsed.
to_float(v) ==
    CASE v.t = "num" -> [ok |-> TRUE, v |-> v.v]
      [] v.t = "int" -> [ok |-> TRUE, v |-> FromInt(v.v)]
      [] v.t = "bool" -> [ok |-> TRUE, v |-> IF v.b THEN FromInt(1) ELSE Zero]
      [] v.t = "str" ->
            LET s == strip(v.s) IN
            IF IsDigits(s) THEN [ok |-> TRUE, v |-> FromInt(DigitsVal(s))]
            ELSE IF s # <<>> /\ Head(s) = "-" /\ IsDigits(Tail(s))
                 THEN [ok |-> TRUE, v |-> FromInt(-DigitsVal(Tail(s)))]
            ELSE [ok |-> FALSE]
      [] OTHER -> [ok |-> FALSE]

\* the cleaning loop of load_scents_from_file and load_blends_from_file
clean_floats(d) ==
    [k \in {x \in DOMAIN d : to_float(d[x]).ok} |-> to_float(d[k]).v]

\* json.dump of a dict of floats
dump_floats(d) == [k \in DOMAIN d |-> JNum(d[k])]

\* data.items() raises AttributeError when the file holds no JSON object
load_scents_raises(doc) == doc.kind = "value"

load_scents_from_file(doc) == clean_floats(load_json(doc, EmptyDict))

save_scents_to_file(custom) == save_json(dump_floats(custom))

\* info.get("scents", {})
get_scents(info) == IF "scents" \in DOMAIN info THEN info.scents ELSE EmptyDict

\* info.get("scents", {}) of an entry of blends.json
get_entry_scents(info) == IF "scents" \in DOMAIN info.v THEN info.v.scents ELSE JObj(EmptyDict)

\* data.items(), info.get and scents.items() raise AttributeError when data, an
\* entry or the "scents" of an entry is not a JSON object
load_blends_raises(doc) ==
    \/ doc.kind = "value"
    \/ /\ doc.kind = "object"
       /\ \E name \in DOMAIN doc.val :
             \/ doc.val[name].t # "obj"
             \/ get_entry_scents(doc.val[name]).t # "obj"

load_blends_from_file(doc) ==
    LET data == load_json(doc, EmptyDict)
        cleaned_scents(name) == clean_floats(get_entry_scents(data[name]).v)
        keep == {name \in DOMAIN data : cleaned_scents(name) # EmptyDict}
    IN [name \in keep |-> [scents |-> cleaned_scents(name)]]

save_blends_to_file(b) ==
    save_json([name \in DOMAIN b |-> JObj([scents |-> JObj(dump_floats(b[name].scents))])])

\* The fields of a container or item record by their Python type: float, int,
\* dict of int (wick_config), and str for the rest
FLOAT_FIELDS ==
    {"capacity_water_oz", "cost_per_unit", "material_cost", "container_cost",
     "target_price", "wax_oz", "fragrance_oz", "water_oz"}
INT_FIELDS == {"quantity"}
INT_DICT_FIELDS == {"wick_config"}

\* json.dump of the value of field f: a float is written with a fraction or an
\* exponent, an int as its digits, a str in quotes, a dict as an object
json_dump_value(f, v) ==
    CASE f \in FLOAT_FIELDS -> JNum(v)
      [] f \in INT_FIELDS -> JInt(v)
      [] f \in INT_DICT_FIELDS -> JObj([k \in DOMAIN v |-> JInt(v[k])])
      [] OTHER -> JStr(v)

json_dump_records(d) ==
    [id \in DOMAIN d |-> JObj([f \in DOMAIN d[id] |-> json_dump_value(f, d[id][f])])]

\* json.load of a value: a number with a fraction or an exponent is a float, a
\* number of digits only an int, a string a str, an object a dict
json_load_value(j) ==
    CASE j.t = "num" -> j.v
      [] j.t = "int" -> j.v
      [] j.t = "str" -> j.s
      [] j.t = "obj" -> [k \in DOMAIN j.v |-> j.v[k].v]

json_load_records(data) ==
    [id \in DOMAIN data |-> [f \in DOMAIN data[id].v |-> json_load_value(data[id].v[f])]]

load_containers_from_file(doc) == json_load_records(load_json(doc, EmptyDict))

save_containers_to_file(c) == save_json(json_dump_records(c))

load_inventory_from_file(doc) == json_load_records(load_json(doc, EmptyDict))

save_inventory_to_file(inv) == save_json(json_dump_records(inv))

----------------------------------------------------------------------------
(* Session initialisation *)

\* init_session_state: scents = BASE_SCENTS overridden by the persisted customs
init_scents(doc) == Update(BASE_SCENTS, load_scents_from_file(doc))

\* init_session_state: anything not in BASE_SCENTS is considered custom
init_custom_scents(sc) == [k \in DOMAIN sc \ DOMAIN BASE_SCENTS |-> sc[k]]

Ran(op, res, key) == [op |-> op, res |-> res, key |-> key]

\* a run that saved, with st.success only
RanSave_silent(op, key) == Ran(op, "ok", key)

\* a run that saved: its st.success and, when the write raised, the st.error of
\* save_json
RanSave(op, key) ==
    IF disk = "ok" THEN Ran(op, "ok", key)
    ELSE [op |-> op, res |-> "ok", key |-> key, error |-> "Error saving file"]

\* The first run of the script: init_session_state() fills st.session_state, in
\* the order scents, custom_scents, blends, containers, inventory. An exception
\* of a loader ends the run with the collections after it never set, and every
\* later run raises it again.
init_session_state ==
    /\ phase = "new"
    /\ IF load_scents_raises(scentsDoc)
       THEN /\ phase' = "failed"
            /\ last' = Ran("init", "AttributeError", <<>>)
            /\ UNCHANGED session
       ELSE IF load_blends_raises(blendsDoc)
       THEN /\ phase' = "failed"
            /\ last' = Ran("init", "AttributeError", <<>>)
            /\ scents' = init_scents(scentsDoc)
            /\ custom_scents' = init_custom_scents(scents')
            /\ UNCHANGED <<blends, containers, inventory>>
       ELSE /\ phase' = "running"
            /\ scents' = init_scents(scentsDoc)
            /\ custom_scents' = init_custom_scents(scents')
            /\ blends' = load_blends_from_file(blendsDoc)
            /\ containers' = load_containers_from_file(containersDoc)
            /\ inventory' = load_inventory_from_file(inventoryDoc)
            /\ last' = Ran("init", "ok", <<>>)
    /\ UNCHANGED <<docs, now, steps, disk, added, peer>>

----------------------------------------------------------------------------
(* Scents *)

\* add_custom_scent with the check of total_cost left out of the elif
add_custom_scent_cost_unchecked(name, bottle_oz, total_cost) ==
    /\ phase = "running"
    /\ steps < MaxSteps
    /\ steps' = steps + 1
    /\ IF strip(name) = <<>>
       THEN /\ last' = Ran("add_scent", "warn_name", <<>>)
            /\ UNCHANGED <<scents, custom_scents, scentsDoc, added>>
       ELSE IF ~RPos(bottle_oz)
       THEN /\ last' = Ran("add_scent", "warn_positive", <<>>)
            /\ UNCHANGED <<scents, custom_scents, scentsDoc, added>>
       ELSE LET key == make_key(name)
                cost_per_oz == RDiv(total_cost, bottle_oz)
            IN /\ scents' = Put(scents, key, cost_per_oz)
               /\ custom_scents' = Put(custom_scents, key, cost_per_oz)
               /\ scentsDoc' = write_file(scentsDoc, save_scents_to_file(custom_scents'))
               /\ added' = Put(added, key, cost_per_oz)
               /\ last' = RanSave("add_scent", key)
    /\ UNCHANGED <<phase, disk, peer, blends, containers, inventory,
                   blendsDoc, containersDoc, inventoryDoc, now>>

\* The "Add scent to list" button of add_custom_scent, with the widgets' values
add_custom_scent(name, bottle_oz, total_cost) ==
    /\ phase = "running"
    /\ steps < MaxSteps
    /\ steps' = steps + 1
    /\ IF strip(name) = <<>>
       THEN /\ last' = Ran("add_scent", "warn_name", <<>>)
            /\ UNCHANGED <<scents, custom_scents, scentsDoc, added>>
       ELSE IF ~RPos(bottle_oz) \/ ~RPos(total_cost)
       THEN /\ last' = Ran("add_scent", "warn_positive", <<>>)
            /\ UNCHANGED <<scents, custom_scents, scentsDoc, added>>
       ELSE LET key == make_key(name)
                cost_per_oz == RDiv(total_cost, bottle_oz)
            IN /\ scents' = Put(scents, key, cost_per_oz)
               /\ custom_scents' = Put(custom_scents, key, cost_per_oz)
               /\ scentsDoc' = write_file(scentsDoc, save_scents_to_file(custom_scents'))
               /\ added' = Put(added, key, cost_per_oz)
               /\ last' = RanSave("add_scent", key)
    /\ UNCHANGED <<phase, disk, peer, blends, containers, inventory,
                   blendsDoc, containersDoc, inventoryDoc, now>>

----------------------------------------------------------------------------
(* Blends *)

RECURSIVE SumOver(_, _)
\* sum(d[k] for k in S)
SumOver(d, S) ==
    IF S = {} THEN Zero
    ELSE LET k == CHOOSE x \in S : TRUE IN RAdd(d[k], SumOver(d, S \ {k}))

\* sum(d.values())
sum_values(d) == SumOver(d, DOMAIN d)

HUNDRED == FromInt(100)
TOLERANCE == Rat(1, 100)

\* abs(total_pct - 100.0) > 0.01
off_total(total_pct) == RLt(TOLERANCE, RAbs(RSub(total_pct, HUNDRED)))

\* compute_blend_cost_from_definition with weight = pct instead of pct / 100.0
compute_blend_cost_unscaled(scents_dict, blend_def) ==
    LET blend_scents == get_scents(blend_def)
        total_pct == sum_values(blend_scents)
        known == DOMAIN blend_scents \cap DOMAIN scents_dict
        weighted == [k \in known |-> RMul(blend_scents[k], scents_dict[k])]
    IN [cost |-> sum_values(weighted),
        total_pct |-> total_pct,
        warnings |->
            (IF off_total(total_pct) THEN {[w |-> "total"]} ELSE {}) \cup
            {[w |-> "missing", key |-> k] : k \in DOMAIN blend_scents \ DOMAIN scents_dict}]

\* compute_blend_cost_from_definition with total_pct added up inside the loop,
\* after the continue
compute_blend_cost_known_total(scents_dict, blend_def) ==
    LET blend_scents == get_scents(blend_def)
        known == DOMAIN blend_scents \cap DOMAIN scents_dict
        total_pct == SumOver(blend_scents, known)
        weighted == [k \in known |-> RMul(RDiv(blend_scents[k], HUNDRED), scents_dict[k])]
    IN [cost |-> sum_values(weighted),
        total_pct |-> total_pct,
        warnings |->
            (IF off_total(total_pct) THEN {[w |-> "total"]} ELSE {}) \cup
            {[w |-> "missing", key |-> k] : k \in DOMAIN blend_scents \ DOMAIN scents_dict}]

\* compute_blend_cost_from_definition; the warnings are a set: their order in the
\* list follows the dict's order, which the model does not keep.
compute_blend_cost_from_definition(scents_dict, blend_def) ==
    LET blend_scents == get_scents(blend_def)
        total_pct == sum_values(blend_scents)
        known == DOMAIN blend_scents \cap DOMAIN scents_dict
        weighted == [k \in known |-> RMul(RDiv(blend_scents[k], HUNDRED), scents_dict[k])]
    IN [cost |-> sum_values(weighted),
        total_pct |-> total_pct,
        warnings |->
            (IF off_total(total_pct) THEN {[w |-> "total"]} ELSE {}) \cup
            {[w |-> "missing", key |-> k] : k \in DOMAIN blend_scents \ DOMAIN scents_dict}]

RECURSIVE rows_to_dict(_)
\* build_new_blend: rows with pct > 0, percentages of a repeated scent added up
rows_to_dict(rows) ==
    IF rows = <<>> THEN EmptyDict
    ELSE LET init == rows_to_dict(SubSeq(rows, 1, Len(rows) - 1))
             r == rows[Len(rows)]
         IN IF RPos(r.pct)
            THEN Put(init, r.scent,
                     RAdd(IF r.scent \in DOMAIN init THEN init[r.scent] ELSE Zero, r.pct))
            ELSE init

\* build_new_blend(scents_dict) for the rows the widgets hold:
\* cost is [ok |-> FALSE] for None
build_new_blend(scents_dict, rows) ==
    LET blend_scents == rows_to_dict(rows)
        total_pct == sum_values(blend_scents)
        weighted == [k \in DOMAIN blend_scents |->
                        RMul(RDiv(blend_scents[k], HUNDRED), scents_dict[k])]
    IN IF blend_scents = EmptyDict
       THEN [cost |-> [ok |-> FALSE], total_pct |-> total_pct, blend_scents |-> EmptyDict]
       ELSE IF off_total(total_pct)
       THEN [cost |-> [ok |-> FALSE], total_pct |-> total_pct, blend_scents |-> blend_scents]
       ELSE [cost |-> [ok |-> TRUE, v |-> sum_values(weighted)],
             total_pct |-> total_pct, blend_scents |-> blend_scents]

\* save_blend without the elif on the total
save_blend_any_total(blend_name, rows) ==
    /\ phase = "running"
    /\ steps < MaxSteps
    /\ steps' = steps + 1
    /\ LET built == build_new_blend(scents, rows) IN
       IF strip(blend_name) = <<>>
       THEN /\ last' = Ran("save_blend", "warn_name", <<>>)
            /\ UNCHANGED <<blends, blendsDoc>>
       ELSE IF built.blend_scents = EmptyDict
       THEN /\ last' = Ran("save_blend", "warn_blend", <<>>)
            /\ UNCHANGED <<blends, blendsDoc>>
       ELSE LET name_key == strip(blend_name)
            IN /\ blends' = Put(blends, name_key, [scents |-> built.blend_scents])
               /\ blendsDoc' = write_file(blendsDoc, save_blends_to_file(blends'))
               /\ last' = RanSave("save_blend", name_key)
    /\ UNCHANGED <<phase, disk, added, peer, scents, custom_scents, containers, inventory,
                   scentsDoc, containersDoc, inventoryDoc, now>>

\* The "Save blend" button of blend_selector ("Create new blend" mode)
save_blend(blend_name, rows) ==
    /\ phase = "running"
    /\ steps < MaxSteps
    /\ steps' = steps + 1
    /\ LET built == build_new_blend(scents, rows) IN
       IF strip(blend_name) = <<>>
       THEN /\ last' = Ran("save_blend", "warn_name", <<>>)
            /\ UNCHANGED <<blends, blendsDoc>>
       ELSE IF built.blend_scents = EmptyDict
       THEN /\ last' = Ran("save_blend", "warn_blend", <<>>)
            /\ UNCHANGED <<blends, blendsDoc>>
       ELSE IF off_total(built.total_pct)
       THEN /\ last' = Ran("save_blend", "warn_total", <<>>)
            /\ UNCHANGED <<blends, blendsDoc>>
       ELSE LET name_key == strip(blend_name)
            IN /\ blends' = Put(blends, name_key, [scents |-> built.blend_scents])
               /\ blendsDoc' = write_file(blendsDoc, save_blends_to_file(blends'))
               /\ last' = RanSave("save_blend", name_key)
    /\ UNCHANGED <<phase, disk, added, peer, scents, custom_scents, containers, inventory,
                   scentsDoc, containersDoc, inventoryDoc, now>>

----------------------------------------------------------------------------
(* Containers *)

\* The "Add Container" button of manage_containers; c holds the widgets' values
add_container(c) ==
    /\ phase = "running"
    /\ steps < MaxSteps
    /\ steps' = steps + 1
    /\ IF strip(c.name) = <<>>
       THEN /\ last' = Ran("add_container", "warn_name", <<>>)
            /\ UNCHANGED <<containers, containersDoc>>
       ELSE IF ~RPos(c.capacity_water_oz)
       THEN /\ last' = Ran("add_container", "warn_capacity", <<>>)
            /\ UNCHANGED <<containers, containersDoc>>
       ELSE LET container_id == make_key(c.name)
            IN /\ containers' = Put(containers, container_id,
                      [name |-> strip(c.name),
                       capacity_water_oz |-> c.capacity_water_oz,
                       shape |-> c.shape,
                       supplier |-> strip(c.supplier),
                       cost_per_unit |-> c.cost_per_unit,
                       notes |-> strip(c.notes)])
               /\ containersDoc' = write_file(containersDoc, save_containers_to_file(containers'))
               /\ last' = RanSave("add_container", container_id)
    /\ UNCHANGED <<phase, disk, added, peer, scents, custom_scents, blends, inventory,
                   scentsDoc, blendsDoc, inventoryDoc, now>>

\* The "Delete" button beside an existing container of manage_containers
delete_container(container_id) ==
    /\ phase = "running"
    /\ steps < MaxSteps
    /\ container_id \in DOMAIN containers
    /\ steps' = steps + 1
    /\ containers' = Del(containers, container_id)
    /\ containersDoc' = write_file(containersDoc, save_containers_to_file(containers'))
    /\ last' = RanSave("delete_container", container_id)
    /\ UNCHANGED <<phase, disk, added, peer, scents, custom_scents, blends, inventory,
                   scentsDoc, blendsDoc, inventoryDoc, now>>

----------------------------------------------------------------------------
(* Recipe *)

RECURSIVE wick_total(_, _, _)
\* choose_wicks: total_wick_cost = sum of count * cost over the wicks in S
wick_total(wicks_dict, counts, S) ==
    IF S = {} THEN Zero
    ELSE LET k == CHOOSE x \in S : TRUE
         IN RAdd(RMul(FromInt(counts[k]), wicks_dict[k]),
                 wick_total(wicks_dict, counts, S \ {k}))

choose_wicks(wicks_dict, counts) ==
    [total_wick_cost |-> wick_total(wicks_dict, counts, DOMAIN wicks_dict),
     wick_counts |-> counts]

\* compute_results with fragrance_oz = water_oz * fragrance_load
compute_results_water_load(water_oz, wax_cost_per_oz, water_to_wax_ratio, fragrance_load, fo_cost_per_oz, wick_cost) ==
    LET wax_oz == RMul(water_oz, water_to_wax_ratio)
        fragrance_oz == RMul(water_oz, fragrance_load)
        wax_cost == RMul(wax_oz, wax_cost_per_oz)
        fragrance_cost == RMul(fragrance_oz, fo_cost_per_oz)
        total_material_cost == RAdd(RAdd(wax_cost, fragrance_cost), wick_cost)
        cost_per_wax_oz == IF RPos(wax_oz) THEN py_div(total_material_cost, wax_oz)
                           ELSE [ok |-> TRUE, v |-> Zero]
    IN IF ~cost_per_wax_oz.ok THEN [ok |-> FALSE]
       ELSE [ok |-> TRUE,
             wax_oz |-> wax_oz,
             fragrance_oz |-> fragrance_oz,
             wax_cost |-> wax_cost,
             fragrance_cost |-> fragrance_cost,
             wick_cost |-> wick_cost,
             total_material_cost |-> total_material_cost,
             cost_per_wax_oz |-> cost_per_wax_oz.v]

\* compute_results without the "if wax_oz > 0 else 0.0"
compute_results_unguarded(water_oz, wax_cost_per_oz, water_to_wax_ratio, fragrance_load, fo_cost_per_oz, wick_cost) ==
    LET wax_oz == RMul(water_oz, water_to_wax_ratio)
        fragrance_oz == RMul(wax_oz, fragrance_load)
        wax_cost == RMul(wax_oz, wax_cost_per_oz)
        fragrance_cost == RMul(fragrance_oz, fo_cost_per_oz)
        total_material_cost == RAdd(RAdd(wax_cost, fragrance_cost), wick_cost)
        cost_per_wax_oz == py_div(total_material_cost, wax_oz)
    IN IF ~cost_per_wax_oz.ok THEN [ok |-> FALSE]
       ELSE [ok |-> TRUE,
             wax_oz |-> wax_oz,
             fragrance_oz |-> fragrance_oz,
             wax_cost |-> wax_cost,
             fragrance_cost |-> fragrance_cost,
             wick_cost |-> wick_cost,
             total_material_cost |-> total_material_cost,
             cost_per_wax_oz |-> cost_per_wax_oz.v]

\* [ok |-> FALSE] stands for an exception raised
compute_results(water_oz, wax_cost_per_oz, water_to_wax_ratio, fragrance_load, fo_cost_per_oz, wick_cost) ==
    LET wax_oz == RMul(water_oz, water_to_wax_ratio)
        fragrance_oz == RMul(wax_oz, fragrance_load)
        wax_cost == RMul(wax_oz, wax_cost_per_oz)
        fragrance_cost == RMul(fragrance_oz, fo_cost_per_oz)
        total_material_cost == RAdd(RAdd(wax_cost, fragrance_cost), wick_cost)
        cost_per_wax_oz == IF RPos(wax_oz) THEN py_div(total_material_cost, wax_oz)
                           ELSE [ok |-> TRUE, v |-> Zero]
    IN IF ~cost_per_wax_oz.ok THEN [ok |-> FALSE]
       ELSE [ok |-> TRUE,
             wax_oz |-> wax_oz,
             fragrance_oz |-> fragrance_oz,
             wax_cost |-> wax_cost,
             fragrance_cost |-> fragrance_cost,
             wick_cost |-> wick_cost,
             total_material_cost |-> total_material_cost,
             cost_per_wax_oz |-> cost_per_wax_oz.v]

\* blend_selector: the blend's cost per oz ([ok |-> FALSE] for None) and the
\* blend name that add_to_inventory_form derives from blend_source
CUSTOM_BLEND == <<"C", "u", "s", "t", "o", "m", " ", "B", "l", "e", "n", "d">>

blend_selector(scents_dict, blends_dict, choice) ==
    IF choice.mode = "saved"
    THEN IF choice.selected \notin DOMAIN blends_dict
         THEN [cost |-> [ok |-> FALSE], blend_name |-> CUSTOM_BLEND]
         ELSE LET r == compute_blend_cost_from_definition(scents_dict,
                                                          blends_dict[choice.selected])
              IN IF ~off_total(r.total_pct) /\ r.warnings = {}
                 THEN [cost |-> [ok |-> TRUE, v |-> r.cost], blend_name |-> choice.selected]
                 ELSE [cost |-> [ok |-> FALSE], blend_name |-> CUSTOM_BLEND]
    ELSE [cost |-> build_new_blend(scents_dict, choice.rows).cost,
          blend_name |-> CUSTOM_BLEND]

----------------------------------------------------------------------------
(* Inventory *)

DigitChar(i) ==
    CASE i = 0 -> "0" [] i = 1 -> "1" [] i = 2 -> "2" [] i = 3 -> "3" [] i = 4 -> "4"
      [] i = 5 -> "5" [] i = 6 -> "6" [] i = 7 -> "7" [] i = 8 -> "8" [] i = 9 -> "9"

\* datetime.now().strftime("%Y%m%d_%H%M%S") at time t: the clock counts half
\* seconds from 2025-01-01 00:00:00 and stays within the first minute
timestamp(t) ==
    LET sec == t \div 2
    IN <<"2", "0", "2", "5", "0", "1", "0", "1", "_", "0", "0", "0", "0",
         DigitChar(sec \div 10), DigitChar(sec % 10)>>

\* f"{sku.strip().lower().replace(' ', '_')}_{timestamp}"
make_item_id(sku, t) == make_key(sku) \o <<"_">> \o timestamp(t)

\* The "Save to Inventory" button of add_to_inventory_form; w holds the values of
\* the widgets of the run (sidebar, jar, blend, wicks and the form itself) and t
\* is the time datetime.now() returns
add_to_inventory(w, t) ==
    LET sel == blend_selector(scents, blends, w.blend)
        wk == choose_wicks(BASE_WICKS, w.wick_counts)
    IN
    /\ phase = "running"
    /\ steps < MaxSteps
    \* main(): the form is shown only with a jar capacity and a valid blend
    /\ RPos(w.water_oz)
    /\ sel.cost.ok
    \* add_to_inventory_form: and only when a container exists to select
    /\ w.container_id \in DOMAIN containers
    /\ t >= now
    /\ t <= MaxClock
    /\ now' = t
    /\ steps' = steps + 1
    /\ LET results == compute_results(w.water_oz, w.wax_cost_per_oz, w.water_to_wax_ratio,
                                      w.fragrance_load, sel.cost.v, wk.total_wick_cost)
       IN
       /\ results.ok
       /\ IF strip(w.sku) = <<>>
          THEN /\ last' = Ran("create_item", "warn_sku", <<>>)
               /\ UNCHANGED <<inventory, inventoryDoc>>
          ELSE IF strip(w.product_name) = <<>>
          THEN /\ last' = Ran("create_item", "warn_product_name", <<>>)
               /\ UNCHANGED <<inventory, inventoryDoc>>
          ELSE LET item_id == make_item_id(w.sku, t)
                   inventory_item ==
                       [sku |-> strip(w.sku),
                        product_name |-> strip(w.product_name),
                        container_id |-> w.container_id,
                        blend_name |-> sel.blend_name,
                        production_date |-> w.production_date,
                        batch_number |-> strip(w.batch_number),
                        quantity |-> w.quantity,
                        material_cost |-> results.total_material_cost,
                        container_cost |-> containers[w.container_id].cost_per_unit,
                        target_price |-> w.target_price,
                        wick_config |-> wk.wick_counts,
                        wax_oz |-> results.wax_oz,
                        fragrance_oz |-> results.fragrance_oz,
                        water_oz |-> w.water_oz,
                        notes |-> strip(w.notes)]
               IN /\ inventory' = Put(inventory, item_id, inventory_item)
                  /\ inventoryDoc' = write_file(inventoryDoc, save_inventory_to_file(inventory'))
                  /\ last' = RanSave("create_item", item_id)
    /\ UNCHANGED <<phase, disk, added, peer, scents, custom_scents, blends, containers,
                   scentsDoc, blendsDoc, containersDoc>>

\* The "Update" button of an inventory item; new_qty is the value of its number
\* input, which has min_value=0. The page draws the button for the items of the
\* inventory only; for any other id inventory[item_id] raises KeyError before
\* anything is assigned or saved.
update_quantity(item_id, new_qty) ==
    /\ phase = "running"
    /\ steps < MaxSteps
    /\ new_qty >= 0
    /\ steps' = steps + 1
    /\ IF item_id \notin DOMAIN inventory
       THEN /\ last' = Ran("update_quantity", "KeyError", item_id)
            /\ UNCHANGED <<inventory, inventoryDoc>>
       ELSE /\ inventory' = [inventory EXCEPT ![item_id] =
                               [f \in DOMAIN inventory[item_id] \cup {"quantity"} |->
                                   IF f = "quantity" THEN new_qty ELSE inventory[item_id][f]]]
            /\ inventoryDoc' = write_file(inventoryDoc, save_inventory_to_file(inventory'))
            /\ last' = RanSave("update_quantity", item_id)
    /\ UNCHANGED <<phase, disk, added, peer, scents, custom_scents, blends, containers,
                   scentsDoc, blendsDoc, containersDoc, now>>

\* delete_item with inventory.pop(item_id, None) in place of del
delete_item_discard(item_id) ==
    /\ phase = "running"
    /\ steps < MaxSteps
    /\ steps' = steps + 1
    /\ inventory' = Del(inventory, item_id)
    /\ inventoryDoc' = write_file(inventoryDoc, save_inventory_to_file(inventory'))
    /\ last' = RanSave("delete_item", item_id)
    /\ UNCHANGED <<phase, disk, added, peer, scents, custom_scents, blends, containers,
                   scentsDoc, blendsDoc, containersDoc, now>>

\* The "Delete" button of an inventory item; del raises KeyError for an id that
\* is not in the inventory
delete_item(item_id) ==
    /\ phase = "running"
    /\ steps < MaxSteps
    /\ steps' = steps + 1
    /\ IF item_id \notin DOMAIN inventory
       THEN /\ last' = Ran("delete_item", "KeyError", item_id)
            /\ UNCHANGED <<inventory, inventoryDoc>>
       ELSE /\ inventory' = Del(inventory, item_id)
            /\ inventoryDoc' = write_file(inventoryDoc, save_inventory_to_file(inventory'))
            /\ last' = RanSave("delete_item", item_id)
    /\ UNCHANGED <<phase, disk, added, peer, scents, custom_scents, blends, containers,
                   scentsDoc, blendsDoc, containersDoc, now>>

RECURSIVE SumInts(_, _)
\* sum(d[k] for k in S) of ints
SumInts(d, S) ==
    IF S = {} THEN 0
    ELSE LET k == CHOOSE x \in S : TRUE IN d[k] + SumInts(d, S \ {k})

\* item.get("container_cost", 0)
get_container_cost(item) ==
    IF "container_cost" \in DOMAIN item THEN item.container_cost ELSE Zero

\* the summary with the container cost left out of the value
summarize_material_only(inv) ==
    [total_items |-> Cardinality(DOMAIN inv),
     total_quantity |-> SumInts([id \in DOMAIN inv |-> inv[id].quantity], DOMAIN inv),
     total_value |->
        sum_values([id \in DOMAIN inv |->
                       RMul(FromInt(inv[id].quantity), inv[id].material_cost)])]

\* the summary metrics of the inventory tab
summarize(inv) ==
    [total_items |-> Cardinality(DOMAIN inv),
     total_quantity |-> SumInts([id \in DOMAIN inv |-> inv[id].quantity], DOMAIN inv),
     total_value |->
        sum_values([id \in DOMAIN inv |->
                       RMul(FromInt(inv[id].quantity),
                            RAdd(inv[id].material_cost, get_container_cost(inv[id])))])]

\* A run that shows the inventory tab: the metrics are computed for an inventory
\* that is not empty
show_summary ==
    /\ phase = "running"
    /\ inventory # EmptyDict
    /\ last' = [op |-> "summary", res |-> "ok", key |-> <<>>, args |-> inventory,
                out |-> summarize(inventory)]
    /\ UNCHANGED <<phase, disk, added, peer, session, docs, now, steps>>

----------------------------------------------------------------------------
(* The values the widgets are given *)

\* text inputs: empty, blank, padded, differing in case only, with an inner space
Names == {<<>>, <<" ">>, <<"a">>, <<" ", "A">>, <<"a", " ", "A">>}

BottleSizes == {Zero, FromInt(1), FromInt(2)}
TotalCosts == {Zero, FromInt(3)}

Row(scent, pct) == [scent |-> scent, pct |-> pct]

\* rows of a new blend: 100; 60 + 40; 60 + 30 = 90; one scent twice; nothing above
\* 0; a row of 0 beside a row of 100; 99.99, 100.01 and 100.02
SomeRows ==
    {<<Row(SCENT_LEATHER, HUNDRED)>>,
     <<Row(SCENT_LEATHER, FromInt(60)), Row(SCENT_SANDALWOOD, FromInt(40))>>,
     <<Row(SCENT_LEATHER, FromInt(60)), Row(SCENT_SANDALWOOD, FromInt(30))>>,
     <<Row(<<"a">>, FromInt(60)), Row(<<"a">>, FromInt(40))>>,
     <<Row(SCENT_LEATHER, Zero)>>,
     <<Row(SCENT_SANDALWOOD, Zero), Row(SCENT_LEATHER, HUNDRED)>>,
     <<Row(<<"a">>, Rat(9999, 100))>>,
     <<Row(SCENT_LEATHER, HUNDRED), Row(<<"a">>, Rat(1, 100))>>,
     <<Row(SCENT_LEATHER, HUNDRED), Row(<<"a">>, Rat(2, 100))>>}

\* the select boxes of build_new_blend offer the scents of the current list
Offered(scents_dict, rowsets) ==
    {rows \in rowsets : \A i \in 1..Len(rows) : rows[i].scent \in DOMAIN scents_dict}

ContainerInputs ==
    [name : Names,
     capacity_water_oz : {Zero, FromInt(8)},
     shape : {"Round"},
     supplier : {<<>>},
     cost_per_unit : {Zero, Rat(5, 2)},
     notes : {<<" ">>}]

PRODUCTION_DATE == <<"2", "0", "2", "5", "-", "0", "1", "-", "0", "1">>

\* the blend of a run: a saved blend, or a new blend of the given rows
BlendChoices(blends_dict, rowsets) ==
    [mode : {"saved"}, selected : DOMAIN blends_dict] \cup [mode : {"new"}, rows : rowsets]

\* the widgets of a run in which "Save to Inventory" can be pressed
RecipeInputs ==
    [water_oz : {FromInt(8)},
     wax_cost_per_oz : {DEFAULT_WAX_COST_PER_OZ},
     water_to_wax_ratio : {DEFAULT_WATER_TO_WAX_RATIO},
     fragrance_load : {DEFAULT_FRAGRANCE_LOAD},
     blend : BlendChoices(blends, {<<Row(SCENT_LEATHER, HUNDRED)>>}),
     wick_counts : {[wood_30mm |-> 1, wood_20mm |-> 0, cdn12 |-> 2, cdn16 |-> 0]},
     sku : Names,
     product_name : {<<>>, <<"a", " ">>},
     container_id : DOMAIN containers,
     quantity : 0..MaxQty,
     target_price : {FromInt(25)},
     batch_number : {<<>>},
     notes : {<<>>},
     production_date : {PRODUCTION_DATE}]

----------------------------------------------------------------------------
(* The session: every button, from a first start and from a used installation *)

SampleContainer ==
    [name |-> <<"A", "a">>, capacity_water_oz |-> FromInt(8), shape |-> "Round",
     supplier |-> <<>>, cost_per_unit |-> Rat(5, 2), notes |-> <<>>]

\* a record as add_to_inventory_form writes it
SampleItem ==
    [sku |-> <<"A">>, product_name |-> <<"a">>, container_id |-> <<"a", "a">>,
     blend_name |-> <<"A">>, production_date |-> PRODUCTION_DATE, batch_number |-> <<>>,
     quantity |-> 1, material_cost |-> Rat(9, 2), container_cost |-> Rat(5, 2),
     target_price |-> FromInt(25),
     wick_config |-> [wood_30mm |-> 1, wood_20mm |-> 0, cdn12 |-> 0, cdn16 |-> 0],
     wax_oz |-> Rat(36, 5), fragrance_oz |-> Rat(72, 125), water_oz |-> FromInt(8),
     notes |-> <<>>]

UsedScentsDoc == Object(<<"a">> :> JNum(Rat(3, 2)))
UsedBlendsDoc ==
    Object(<<"A">> :> JObj([scents |-> JObj(SCENT_LEATHER :> JNum(HUNDRED))]))
UsedContainersDoc == save_containers_to_file(<<"a", "a">> :> SampleContainer)
\* the id of an item that an earlier session made, at 2024-12-31 23:59:59
SAMPLE_ITEM_ID ==
    <<"a", "_", "2", "0", "2", "4", "1", "2", "3", "1", "_", "2", "3", "5", "9", "5", "9">>
UsedInventoryDoc == save_inventory_to_file(SAMPLE_ITEM_ID :> SampleItem)

\* a browser session before its first run, and no run of any session before it
EmptySession ==
    /\ phase = "new"
    /\ scents = EmptyDict
    /\ custom_scents = EmptyDict
    /\ blends = EmptyDict
    /\ containers = EmptyDict
    /\ inventory = EmptyDict
    /\ now = 0
    /\ steps = 0
    /\ last = Ran("none", "ok", <<>>)
    /\ added = EmptyDict

NewSession ==
    /\ EmptySession
    /\ disk = "ok"
    /\ peer = NoPeer

Files(s, b, c, i) ==
    /\ scentsDoc = s
    /\ blendsDoc = b
    /\ containersDoc = c
    /\ inventoryDoc = i

Init ==
    /\ NewSession
    /\ \/ Files(Absent, Absent, Absent, Absent)
       \/ Files(UsedScentsDoc, UsedBlendsDoc, UsedContainersDoc, UsedInventoryDoc)

Next ==
    \/ init_session_state
    \/ \E name \in Names, b \in BottleSizes, c \in TotalCosts : add_custom_scent(name, b, c)
    \/ \E name \in Names, rows \in Offered(scents, SomeRows) : save_blend(name, rows)
    \/ \E c \in ContainerInputs : add_container(c)
    \/ \E id \in DOMAIN containers : delete_container(id)
    \/ \E w \in RecipeInputs, t \in 0..MaxClock : add_to_inventory(w, t)
    \/ \E id \in DOMAIN inventory, q \in 0..MaxQty : update_quantity(id, q)
    \/ \E id \in DOMAIN inventory : delete_item(id)

Spec == Init /\ [][Next]_vars

----------------------------------------------------------------------------
(* The calculator's functions, applied to arguments of any kind *)

\* compute_blend_cost_from_definition(scents_dict, blend_def) is called
price_blend(scents_dict, blend_def) ==
    /\ last' = [op |-> "price_blend", res |-> "ok", key |-> <<>>,
                args |-> [scents_dict |-> scents_dict, blend_def |-> blend_def],
                out |-> compute_blend_cost_from_definition(scents_dict, blend_def)]
    /\ UNCHANGED <<phase, disk, added, peer, session, docs, now, steps>>

\* compute_results(...) is called with the arguments a
materials(a) ==
    /\ last' = [op |-> "compute_results", res |-> "ok", key |-> <<>>,
                args |-> a,
                out |-> compute_results(a.water_oz, a.wax_cost_per_oz, a.water_to_wax_ratio,
                                        a.fragrance_load, a.fo_cost_per_oz, a.wick_cost)]
    /\ UNCHANGED <<phase, disk, added, peer, session, docs, now, steps>>

Catalogs ==
    {BASE_SCENTS,
     Put(BASE_SCENTS, <<"a">>, Rat(3, 2)),
     <<"a">> :> FromInt(3)}

PriceKeys == {SCENT_LEATHER, <<"a">>, <<"z">>}
PricePcts == {Rat(1, 100), FromInt(40), FromInt(60), Rat(9999, 100), HUNDRED}

\* blend definitions: every way to give percentages to some of the keys, and a
\* definition without "scents"
BlendDefs ==
    {[scents |-> d] : d \in UNION {[K -> PricePcts] : K \in SUBSET PriceKeys}}
    \cup {[name |-> <<"a">>]}

MaterialArgs ==
    [water_oz : {FromInt(-8), Zero, Rat(15, 2), FromInt(8)},
     wax_cost_per_oz : {Zero, Rat(2189, 10000)},
     water_to_wax_ratio : {FromInt(-1), Rat(1, 2), Rat(90, 100)},
     fragrance_load : {Rat(4, 100), Rat(8, 100)},
     fo_cost_per_oz : {Zero, Rat(250, 100)},
     wick_cost : {Zero, Rat(147, 100)}]

InitIdle == NewSession /\ Files(Absent, Absent, Absent, Absent)

NextCalc ==
    \/ \E c \in Catalogs, d \in BlendDefs : price_blend(c, d)
    \/ \E a \in MaterialArgs : materials(a)

SpecCalc == InitIdle /\ [][NextCalc]_vars

----------------------------------------------------------------------------
(* The scent list, from any scents.json *)

AnyScentsDocs ==
    {Absent, Corrupt, Object(EmptyDict),
     Object(<<"a">> :> JNum(Rat(3, 2))),
     Object(<<"a">> :> JNum(Zero)),
     Object(SCENT_LAVENDER :> JNum(FromInt(-1))),
     Object((<<"a">> :> JNum(Rat(3, 2))) @@ (SCENT_LAVENDER :> JNum(FromInt(2)))),
     Object(<<"a">> :> JStr(<<"2">>)),
     Object(<<"a">> :> JStr(<<"-", "1">>)),
     Object(<<"a">> :> JStr(<<"x">>)),
     Object(<<"a">> :> JNull),
     Object(<<"a">> :> JBool(FALSE))}

InitScents ==
    /\ NewSession
    /\ scentsDoc \in AnyScentsDocs
    /\ blendsDoc = Absent
    /\ containersDoc = Absent
    /\ inventoryDoc = Absent

NextScents ==
    \/ init_session_state
    \/ \E name \in Names, b \in BottleSizes, c \in TotalCosts : add_custom_scent(name, b, c)

SpecScents == InitScents /\ [][NextScents]_vars

----------------------------------------------------------------------------
(* The inventory, from any inventory.json *)

\* a record in the older shape of the docstring of load_inventory_from_file
LegacyItem ==
    [sku |-> <<"A">>, product_name |-> <<"a">>, container_id |-> <<"a", "a">>,
     blend_name |-> <<"A">>, production_date |-> PRODUCTION_DATE, batch_number |-> <<>>,
     quantity |-> 1, material_cost |-> Rat(9, 2), target_price |-> FromInt(25),
     wick_config |-> [wood_30mm |-> 1], wax_oz |-> Rat(27, 4),
     fragrance_oz |-> Rat(27, 50), notes |-> <<>>]

AnyInventoryDocs ==
    {Absent, Corrupt, Object(EmptyDict),
     UsedInventoryDoc,
     save_inventory_to_file(SAMPLE_ITEM_ID :> LegacyItem),
     save_inventory_to_file(SAMPLE_ITEM_ID :> [SampleItem EXCEPT !.quantity = -3])}

InitInventory ==
    /\ NewSession
    /\ scentsDoc = Absent
    /\ blendsDoc = Absent
    /\ containersDoc = UsedContainersDoc
    /\ inventoryDoc \in AnyInventoryDocs

NextInventory ==
    \/ init_session_state
    \/ \E w \in RecipeInputs, t \in 0..MaxClock : add_to_inventory(w, t)
    \/ \E id \in DOMAIN inventory, q \in 0..MaxQty : update_quantity(id, q)

SpecInventory == InitInventory /\ [][NextInventory]_vars

----------------------------------------------------------------------------
(* The two handlers of an inventory item, run for any item id *)

\* the id of the sample item, the id of an item saved in this session, and an
\* id that no item has
AnyItemIds == {SAMPLE_ITEM_ID, make_item_id(<<"a">>, 0), <<"z">>}

NextLedger ==
    \/ init_session_state
    \/ \E w \in RecipeInputs, t \in 0..MaxClock : add_to_inventory(w, t)
    \/ \E id \in AnyItemIds, q \in 0..MaxQty : update_quantity(id, q)
    \/ \E id \in AnyItemIds : delete_item(id)

SpecLedger == InitInventory /\ [][NextLedger]_vars

----------------------------------------------------------------------------
(* The summary of the inventory tab *)

\* two items: 3 at 3.50 + 0.50 and, saved before container_cost existed, 5 at 6.00
ScenarioInventory ==
    (SAMPLE_ITEM_ID :>
        [SampleItem EXCEPT !.quantity = 3, !.material_cost = Rat(7, 2),
                           !.container_cost = Rat(1, 2)]) @@
    (<<"z">> :> [LegacyItem EXCEPT !.quantity = 5, !.material_cost = FromInt(6)])

ScenarioInventoryDoc == save_inventory_to_file(ScenarioInventory)

InitSummary ==
    /\ NewSession
    /\ scentsDoc = Absent
    /\ blendsDoc = Absent
    /\ containersDoc = UsedContainersDoc
    /\ inventoryDoc \in {Absent, UsedInventoryDoc,
                         save_inventory_to_file(SAMPLE_ITEM_ID :> LegacyItem),
                         ScenarioInventoryDoc}

NextSummary ==
    \/ init_session_state
    \/ \E w \in RecipeInputs, t \in 0..MaxClock : add_to_inventory(w, t)
    \/ \E id \in DOMAIN inventory, q \in 0..MaxQty : update_quantity(id, q)
    \/ \E id \in DOMAIN inventory : delete_item(id)
    \/ show_summary

SpecSummary == InitSummary /\ [][NextSummary]_vars

----------------------------------------------------------------------------
(* Session initialisation, from any content of the four files *)

LoadScentsDocs == AnyScentsDocs \cup {NotObject(JList), NotObject(JNull)}

\* blends.json: missing, unreadable, {}, a blend, a blend whose only percentage is
\* no number, a blend with a usable and an unusable percentage, an entry without
\* "scents", an entry that is a number, "scents": null, and a list
AnyBlendsDocs ==
    {Absent, Corrupt, Object(EmptyDict),
     UsedBlendsDoc,
     Object(<<"A">> :> JObj([scents |-> JObj(SCENT_LEATHER :> JStr(<<"x">>))])),
     Object(<<"A">> :> JObj([scents |-> JObj((SCENT_LEATHER :> JNum(HUNDRED)) @@
                                             (<<"a">> :> JNull))])),
     Object(<<"A">> :> JObj([name |-> JStr(<<"A">>)])),
     Object((<<"A">> :> JNum(FromInt(5))) @@
            (<<"a">> :> JObj([scents |-> JObj(SCENT_LEATHER :> JNum(HUNDRED))]))),
     Object(<<"A">> :> JObj([scents |-> JNull])),
     NotObject(JList)}

InitLoad ==
    /\ NewSession
    /\ scentsDoc \in LoadScentsDocs
    /\ blendsDoc \in AnyBlendsDocs
    /\ containersDoc \in {Absent, Corrupt, UsedContainersDoc}
    /\ inventoryDoc \in {Absent, Corrupt, UsedInventoryDoc,
                         save_inventory_to_file(SAMPLE_ITEM_ID :> LegacyItem)}

NextLoad == init_session_state

SpecLoad == InitLoad /\ [][NextLoad]_vars

----------------------------------------------------------------------------
(* Adding scents over several sessions *)

\* a new browser session (or a restart of the server): st.session_state is
\* empty again and the next run fills it from the files
restart ==
    /\ phase = "running"
    /\ phase' = "new"
    /\ scents' = EmptyDict
    /\ custom_scents' = EmptyDict
    /\ blends' = EmptyDict
    /\ containers' = EmptyDict
    /\ inventory' = EmptyDict
    /\ last' = Ran("restart", "ok", <<>>)
    /\ UNCHANGED <<docs, now, steps, disk, added, peer>>

\* names typed into "Scent name": a new one, and the name of a built-in scent
ScentNames == {<<"a">>, <<" ", "A">>, SCENT_LAVENDER, SCENT_LEATHER}

InitRestart ==
    /\ NewSession
    /\ scentsDoc \in {Absent, UsedScentsDoc}
    /\ blendsDoc = Absent
    /\ containersDoc = Absent
    /\ inventoryDoc = Absent

NextRestart ==
    \/ init_session_state
    \/ \E name \in ScentNames, b \in BottleSizes, c \in TotalCosts :
          add_custom_scent(name, b, c)
    \/ restart

SpecRestart == InitRestart /\ [][NextRestart]_vars

----------------------------------------------------------------------------
(* Two sessions on the same files *)

\* the st.session_state of a session, as the record kept for the other session
SessionState(id) ==
    [id |-> id, phase |-> phase, scents |-> scents, custom_scents |-> custom_scents,
     blends |-> blends, containers |-> containers, inventory |-> inventory,
     last |-> last]

\* the run of this session is inside save_json
Busy == \E doc \in {scentsDoc, blendsDoc, containersDoc, inventoryDoc} : OpenedBy(doc, me)

\* the run of this session leaves "with open(...)" of save_json
close_file ==
    /\ peer # NoPeer
    /\ Busy
    /\ scentsDoc' = closed(scentsDoc)
    /\ blendsDoc' = closed(blendsDoc)
    /\ containersDoc' = closed(containersDoc)
    /\ inventoryDoc' = closed(inventoryDoc)
    /\ UNCHANGED <<phase, session, last, now, steps, disk, added, peer>>

\* the thread of the other session is scheduled
switch_session ==
    /\ peer # NoPeer
    /\ peer' = SessionState(me)
    /\ phase' = peer.phase
    /\ scents' = peer.scents
    /\ custom_scents' = peer.custom_scents
    /\ blends' = peer.blends
    /\ containers' = peer.containers
    /\ inventory' = peer.inventory
    /\ last' = peer.last
    /\ UNCHANGED <<docs, now, steps, disk, added>>

\* two sessions that have both run init_session_state on the same files
InitTwo ==
    /\ \/ Files(Absent, Absent, Absent, Absent)
       \/ Files(UsedScentsDoc, UsedBlendsDoc, UsedContainersDoc, UsedInventoryDoc)
    /\ phase = "running"
    /\ scents = init_scents(scentsDoc)
    /\ custom_scents = init_custom_scents(scents)
    /\ blends = load_blends_from_file(blendsDoc)
    /\ containers = load_containers_from_file(containersDoc)
    /\ inventory = load_inventory_from_file(inventoryDoc)
    /\ last = Ran("init", "ok", <<>>)
    /\ now = 0
    /\ steps = 0
    /\ disk = "ok"
    /\ added = EmptyDict
    /\ peer = SessionState(2)

NextTwo ==
    \/ ~Busy /\ \E c \in ContainerInputs : add_container(c)
    \/ ~Busy /\ \E id \in DOMAIN containers : delete_container(id)
    \/ close_file
    \/ switch_session

SpecTwo == InitTwo /\ [][NextTwo]_vars

----------------------------------------------------------------------------
(* The application on a disk where every write fails *)

\* the ways open(path, "w") / json.dump can raise in save_json
FailingDisks == {"readonly", "full"}

InitDisk ==
    /\ EmptySession
    /\ peer = NoPeer
    /\ disk \in FailingDisks
    /\ \/ Files(Absent, Absent, Absent, Absent)
       \/ Files(UsedScentsDoc, UsedBlendsDoc, UsedContainersDoc, UsedInventoryDoc)

NextDisk == Next

SpecDisk == InitDisk /\ [][NextDisk]_vars

----------------------------------------------------------------------------
(* Properties: saving a blend *)

RECURSIVE PctOf(_, _)
\* the percentage the rows give to scent k: the sum of its rows above 0
PctOf(rows, k) ==
    IF rows = <<>> THEN Zero
    ELSE LET r == Head(rows)
         IN RAdd(IF r.scent = k /\ RPos(r.pct) THEN r.pct ELSE Zero, PctOf(Tail(rows), k))

RECURSIVE TotalOf(_)
\* the total percentage of the rows
TotalOf(rows) ==
    IF rows = <<>> THEN Zero
    ELSE RAdd(IF RPos(Head(rows).pct) THEN Head(rows).pct ELSE Zero, TotalOf(Tail(rows)))

\* the blend definition the rows stand for
BlendOf(rows) ==
    [scents |-> [k \in {rows[i].scent : i \in {j \in 1..Len(rows) : RPos(rows[j].pct)}} |->
                    PctOf(rows, k)]]

\* |total - 100| <= 0.01, in hundredths of a percent
WithinTolerance(total) ==
    /\ total.n * 100 >= 9999 * total.d
    /\ total.n * 100 <= 10001 * total.d

Savable(name, rows) ==
    /\ strip(name) # <<>>
    /\ \E i \in 1..Len(rows) : RPos(rows[i].pct)
    /\ WithinTolerance(TotalOf(rows))

\* C1: a "Save blend" run stores the blend under the trimmed name exactly when the
\* name is not blank, some row has a percentage above 0 and the total is within
\* 0.01 of 100; it then replaces the blend of that name and leaves every other
\* blend as it was; otherwise the saved blends stay as they were.
C1_SaveBlendStoresExactlyValid ==
    [][\A name \in Names, rows \in Offered(scents, SomeRows) :
          save_blend(name, rows) =>
             IF Savable(name, rows)
             THEN blends' = Put(blends, strip(name), BlendOf(rows))
             ELSE blends' = blends]_vars

\* a blend was saved beside another one, from two rows of one scent
C1_Witness ==
    /\ last.op = "save_blend"
    /\ last.res = "ok"
    /\ Cardinality(DOMAIN blends) >= 2
    /\ blends[last.key] = [scents |-> (<<"a">> :> HUNDRED)]

----------------------------------------------------------------------------
(* Properties: rejected actions *)

Rejections ==
    {"warn_name", "warn_positive", "warn_blend", "warn_total", "warn_capacity",
     "warn_sku", "warn_product_name"}

\* C2: a run whose action validation rejects (add scent: blank name, bottle size
\* or total cost <= 0; save blend: blank name, no row above 0, total off 100 by
\* more than 0.01; save to inventory: blank SKU or blank product name) leaves the
\* five collections of the session and the four documents as they were.
C2_RejectedActionChangesNothing ==
    [][/\ \A name \in Names, b \in BottleSizes, c \in TotalCosts :
            (strip(name) = <<>> \/ b.n <= 0 \/ c.n <= 0) /\ add_custom_scent(name, b, c)
            => UNCHANGED <<session, docs>>
       /\ \A name \in Names, rows \in Offered(scents, SomeRows) :
            ~Savable(name, rows) /\ save_blend(name, rows)
            => UNCHANGED <<session, docs>>
       /\ \A w \in RecipeInputs, t \in 0..MaxClock :
            (strip(w.sku) = <<>> \/ strip(w.product_name) = <<>>) /\ add_to_inventory(w, t)
            => UNCHANGED <<session, docs>>
       /\ last'.res \in Rejections => UNCHANGED <<session, docs>>]_vars

\* "Save to Inventory" was rejected for its blank product name in a session with
\* a saved item and written documents
C2_Witness ==
    /\ last.op = "create_item"
    /\ last.res = "warn_product_name"
    /\ inventory # EmptyDict
    /\ inventoryDoc # Absent

----------------------------------------------------------------------------
(* Properties: pricing a blend *)

\* the product and the quotient of two numbers, as fractions in lowest terms
\* (the quotient for a divisor above 0)
Times(x, y) == Rat(x.n * y.n, x.d * y.d)
Per(x, y) == Rat(x.n * y.d, x.d * y.n)

RECURSIVE PercentSum(_, _)
\* the sum of the percentages a definition declares for the keys ks
PercentSum(entries, ks) ==
    IF ks = {} THEN Zero
    ELSE LET k == CHOOSE x \in ks : TRUE
         IN RAdd(entries[k], PercentSum(entries, ks \ {k}))

RECURSIVE CostTimesPercent(_, _, _)
\* the sum of percent times catalog cost over the keys ks: 100 times their
\* weighted cost
CostTimesPercent(catalog, entries, ks) ==
    IF ks = {} THEN Zero
    ELSE LET k == CHOOSE x \in ks : TRUE
         IN RAdd(Times(entries[k], catalog[k]), CostTimesPercent(catalog, entries, ks \ {k}))

Priced == last.op = "price_blend" /\ "scents" \in DOMAIN last.args.blend_def
PricedCatalog == last.args.scents_dict
PricedEntries == last.args.blend_def.scents

\* C3: for a blend definition whose percentages sum to 100 within 0.01 and whose
\* keys are all in the catalog, the blend cost comes without warnings and is the
\* sum over the entries of percent / 100 times the catalog cost of the scent.
C3_CompleteBlendPricedExactly ==
    (/\ Priced
     /\ WithinTolerance(PercentSum(PricedEntries, DOMAIN PricedEntries))
     /\ DOMAIN PricedEntries \subseteq DOMAIN PricedCatalog)
    => /\ last.out.warnings = {}
       /\ last.out.cost =
             Per(CostTimesPercent(PricedCatalog, PricedEntries, DOMAIN PricedEntries),
                 HUNDRED)

\* 99.99% of leather and 0.01% of a custom scent were priced
C3_Witness ==
    /\ Priced
    /\ PricedEntries = (SCENT_LEATHER :> Rat(9999, 100)) @@ (<<"a">> :> Rat(1, 100))
    /\ PricedCatalog = Put(BASE_SCENTS, <<"a">>, Rat(3, 2))
    /\ last.out.warnings = {}
    /\ last.out.cost = Rat(27629637, 16000000)

\* C4: for a blend definition that names a key the catalog lacks, the result has
\* a warning, the cost is the weighted sum over the keys the catalog has, and the
\* total percent is the sum of all declared percentages.
C4_UnknownKeyWarnedAndSkipped ==
    (Priced /\ DOMAIN PricedEntries \ DOMAIN PricedCatalog # {})
    => /\ last.out.warnings # {}
       /\ last.out.cost =
             Per(CostTimesPercent(PricedCatalog, PricedEntries,
                                  DOMAIN PricedEntries \cap DOMAIN PricedCatalog),
                 HUNDRED)
       /\ last.out.total_pct = PercentSum(PricedEntries, DOMAIN PricedEntries)

\* 60% of leather and 40% of a scent the catalog lacks were priced: the total
\* is 100 and the cost is that of the leather alone
C4_Witness ==
    /\ Priced
    /\ PricedEntries = (SCENT_LEATHER :> FromInt(60)) @@ (<<"z">> :> FromInt(40))
    /\ PricedCatalog = BASE_SCENTS
    /\ last.out.warnings = {[w |-> "missing", key |-> <<"z">>]}
    /\ last.out.total_pct = HUNDRED
    /\ last.out.cost = Rat(8289, 8000)

----------------------------------------------------------------------------
(* Properties: the material costs *)

Computed == last.op = "compute_results"

STANDARD_RECIPE ==
    [water_oz |-> FromInt(8), wax_cost_per_oz |-> Rat(2189, 10000),
     water_to_wax_ratio |-> Rat(90, 100), fragrance_load |-> Rat(8, 100),
     fo_cost_per_oz |-> Rat(250, 100), wick_cost |-> Rat(147, 100)]

\* C5: for all inputs the results are wax_oz = water_oz * ratio, fragrance_oz =
\* wax_oz * load, wax_cost = wax_oz * wax cost per oz, fragrance_cost =
\* fragrance_oz * fragrance cost per oz, total = wax_cost + fragrance_cost + wick
\* cost and, with wax_oz > 0, cost_per_wax_oz = total / wax_oz; water 8, wax cost
\* 0.2189, ratio 0.90, load 0.08, blend 2.50 and wick 1.47 give wax_oz 7.2,
\* fragrance_oz 0.576 and fragrance_cost 1.44.
C5_MaterialFormulas ==
    Computed =>
      LET a == last.args
          r == last.out
      IN /\ r.ok
         /\ r.wax_oz = Times(a.water_oz, a.water_to_wax_ratio)
         /\ r.fragrance_oz = Times(r.wax_oz, a.fragrance_load)
         /\ r.wax_cost = Times(r.wax_oz, a.wax_cost_per_oz)
         /\ r.fragrance_cost = Times(r.fragrance_oz, a.fo_cost_per_oz)
         /\ RSub(RSub(r.total_material_cost, r.wax_cost), r.fragrance_cost) = a.wick_cost
         /\ r.wax_oz.n > 0 => r.cost_per_wax_oz = Per(r.total_material_cost, r.wax_oz)
         /\ a = STANDARD_RECIPE =>
               /\ r.wax_oz = Rat(72, 10)
               /\ r.fragrance_oz = Rat(576, 1000)
               /\ r.fragrance_cost = Rat(144, 100)

\* the standard recipe was computed: a total of 4.486 (rounded) for 7.2 oz of wax
C5_Witness ==
    /\ Computed
    /\ last.args = STANDARD_RECIPE
    /\ last.out.ok
    /\ last.out.wax_cost = Rat(157608, 100000)
    /\ last.out.total_material_cost = Rat(448608, 100000)
    /\ last.out.cost_per_wax_oz = Rat(448608, 720000)

\* C6 as stated: for every water_oz <= 0 the results come without an error and
\* are zero: wax_oz = 0, fragrance_oz = 0 and cost_per_wax_oz = 0.
C6_NonPositiveWaterGivesZeros ==
    (Computed /\ last.args.water_oz.n <= 0)
    => /\ last.out.ok
       /\ last.out.wax_oz = Zero
       /\ last.out.fragrance_oz = Zero
       /\ last.out.cost_per_wax_oz = Zero

\* C6 as amended: for every water_oz <= 0 the results come without an error; for
\* water_oz = 0 they have wax_oz = 0, fragrance_oz = 0 and cost_per_wax_oz = 0;
\* for water_oz < 0 wax_oz and fragrance_oz are the products of the formulas
\* (negative for a positive ratio) and cost_per_wax_oz = 0 whenever wax_oz <= 0.
C6_NonPositiveWaterNoError ==
    (Computed /\ last.args.water_oz.n <= 0)
    => LET a == last.args
           r == last.out
       IN /\ r.ok
          /\ a.water_oz = Zero =>
                r.wax_oz = Zero /\ r.fragrance_oz = Zero /\ r.cost_per_wax_oz = Zero
          /\ r.wax_oz = Times(a.water_oz, a.water_to_wax_ratio)
          /\ r.fragrance_oz = Times(r.wax_oz, a.fragrance_load)
          /\ r.wax_oz.n <= 0 => r.cost_per_wax_oz = Zero

\* the results for no water at all, with wicks: no wax, no cost per oz
C6_Witness ==
    /\ Computed
    /\ last.args.water_oz = Zero
    /\ last.args.wick_cost = Rat(147, 100)
    /\ last.out.ok
    /\ last.out.wax_oz = Zero
    /\ last.out.total_material_cost = Rat(147, 100)
    /\ last.out.cost_per_wax_oz = Zero

----------------------------------------------------------------------------
(* Properties: the scent list *)

\* C7: in every state of a session started from any scents.json, after any "Add
\* scent" runs, every scent of the list has a cost per ounce above 0.
C7_CatalogCostsPositive ==
    phase = "running" => \A k \in DOMAIN scents : scents[k].n > 0

----------------------------------------------------------------------------
(* Properties: the inventory *)

\* C8: a successful "Save to Inventory" stores the record under an id that was
\* not in the inventory before: the inventory grows by one item and every item it
\* had is as it was.
C8_ItemIdsUnique ==
    [][\A w \in RecipeInputs, t \in 0..MaxClock :
          (strip(w.sku) # <<>> /\ strip(w.product_name) # <<>> /\ add_to_inventory(w, t))
          => /\ last'.key \notin DOMAIN inventory
             /\ Cardinality(DOMAIN inventory') = Cardinality(DOMAIN inventory) + 1
             /\ \A id \in DOMAIN inventory :
                   id \in DOMAIN inventory' /\ inventory'[id] = inventory[id]]_vars

\* the fields of an item other than its quantity
Snapshot(item) == [f \in DOMAIN item \ {"quantity"} |-> item[f]]

\* C9: an item of the inventory is affected only by its own "Update", which
\* changes its quantity only, and by its own "Delete": every other run (add
\* scent, save blend, add or delete a container, also the one the item names,
\* save or update or delete another item) leaves all its fields as they were, and
\* deleting the container an item names succeeds.
C9_OnlyUpdateAndDeleteAffectItem ==
    [][/\ \A id \in DOMAIN inventory :
            IF last'.op = "delete_item" /\ last'.key = id
            THEN id \notin DOMAIN inventory'
            ELSE IF last'.op = "update_quantity" /\ last'.key = id
            THEN id \in DOMAIN inventory' /\ Snapshot(inventory'[id]) = Snapshot(inventory[id])
            ELSE id \in DOMAIN inventory' /\ inventory'[id] = inventory[id]
       /\ \A cid \in DOMAIN containers :
            (\E id \in DOMAIN inventory : inventory[id].container_id = cid)
            => ENABLED delete_container(cid)]_vars

\* C10: in every state of a session started from any inventory.json, after any
\* "Save to Inventory" and "Update" runs, the quantity of every item is an
\* integer >= 0 (no run stores a quantity below 0).
C10_QuantityNatural ==
    phase = "running" =>
       \A id \in DOMAIN inventory :
          "quantity" \in DOMAIN inventory[id] /\ inventory[id].quantity \in Nat

\* C11: "Delete" and "Update" for an id that is not in the inventory fail with
\* a not-found error (KeyError) and leave the inventory and inventory.json as
\* they were; a successful "Delete" removes the id, so that a second "Delete" of
\* it fails.
C11_AbsentItemNotFound ==
    [][/\ \A id \in AnyItemIds, q \in 0..MaxQty :
            (id \notin DOMAIN inventory /\ update_quantity(id, q))
            => last'.res = "KeyError" /\ UNCHANGED <<inventory, inventoryDoc>>
       /\ \A id \in AnyItemIds :
            delete_item(id)
            => IF id \in DOMAIN inventory
               THEN last'.res = "ok" /\ id \notin DOMAIN inventory'
               ELSE last'.res = "KeyError" /\ UNCHANGED <<inventory, inventoryDoc>>]_vars

\* the sample item was deleted, and the second "Delete" of it failed
C11_Witness ==
    /\ steps = 2
    /\ last = Ran("delete_item", "KeyError", SAMPLE_ITEM_ID)
    /\ inventory = EmptyDict
    /\ inventoryDoc = save_inventory_to_file(EmptyDict)

----------------------------------------------------------------------------
(* Properties: the summary *)

RECURSIVE UnitsOf(_, _)
\* the units of the items ids
UnitsOf(inv, ids) ==
    IF ids = {} THEN 0
    ELSE LET id == CHOOSE x \in ids : TRUE IN inv[id].quantity + UnitsOf(inv, ids \ {id})

\* quantity * (material cost + container cost) of an item, a missing container
\* cost counting as 0, as a fraction in lowest terms
ItemValue(item) ==
    LET m == item.material_cost
        c == IF "container_cost" \in DOMAIN item THEN item.container_cost ELSE [n |-> 0, d |-> 1]
    IN Rat(item.quantity * (m.n * c.d + c.n * m.d), m.d * c.d)

RECURSIVE ValueOf(_, _)
\* the value of the items ids
ValueOf(inv, ids) ==
    IF ids = {} THEN Zero
    ELSE LET id == CHOOSE x \in ids : TRUE
         IN RAdd(ValueOf(inv, ids \ {id}), ItemValue(inv[id]))

Summarized == last.op = "summary"

\* C12: the summary of an inventory has total products = the number of items,
\* total units = the sum of the quantities and total value = the sum over the
\* items of quantity * (material_cost + container_cost), an item without
\* container_cost counting 0 for it; quantities 3 and 5 at unit costs 4 and 6
\* give 8 units and a value of 42.
C12_SummaryTotals ==
    Summarized =>
       /\ last.out.total_items = Cardinality(DOMAIN last.args)
       /\ last.out.total_quantity = UnitsOf(last.args, DOMAIN last.args)
       /\ last.out.total_value = ValueOf(last.args, DOMAIN last.args)
       /\ last.args = ScenarioInventory =>
             /\ last.out.total_items = 2
             /\ last.out.total_quantity = 8
             /\ last.out.total_value = FromInt(42)

\* the summary of the two items of the scenario was shown
C12_Witness ==
    /\ Summarized
    /\ last.args = ScenarioInventory
    /\ last.out = [total_items |-> 2, total_quantity |-> 8, total_value |-> FromInt(42)]

----------------------------------------------------------------------------
(* Properties: loading *)

Unreadable(doc) == doc.kind \in {"absent", "corrupt"}

\* the percentages of an entry of blends.json that are numbers
UsablePercents(entry) ==
    IF entry.t = "obj" /\ "scents" \in DOMAIN entry.v /\ entry.v.scents.t = "obj"
    THEN {k \in DOMAIN entry.v.scents.v : to_float(entry.v.scents.v[k]).ok}
    ELSE {}

\* C13: session initialisation completes for every content of the four files:
\* a missing or unparsable file gives the empty (default) collection, and any
\* other content gives the document's entries, without the scents that have no
\* numeric cost and without the blends that have no numeric percentage.
C13_LoadingNeverFails ==
    phase # "new" =>
       /\ phase = "running"
       /\ last = Ran("init", "ok", <<>>)
       /\ Unreadable(scentsDoc) => scents = BASE_SCENTS /\ custom_scents = EmptyDict
       /\ Unreadable(blendsDoc) => blends = EmptyDict
       /\ Unreadable(containersDoc) => containers = EmptyDict
       /\ Unreadable(inventoryDoc) => inventory = EmptyDict
       /\ scentsDoc.kind = "object" =>
             DOMAIN scents = DOMAIN BASE_SCENTS \cup
                             {k \in DOMAIN scentsDoc.val : to_float(scentsDoc.val[k]).ok}
       /\ blendsDoc.kind = "object" =>
             DOMAIN blends = {name \in DOMAIN blendsDoc.val :
                                 UsablePercents(blendsDoc.val[name]) # {}}
       /\ containersDoc.kind = "object" => DOMAIN containers = DOMAIN containersDoc.val
       /\ inventoryDoc.kind = "object" => DOMAIN inventory = DOMAIN inventoryDoc.val

----------------------------------------------------------------------------
(* Properties: the documents *)

\* C14: for each of the four collections of a session, whatever the runs made
\* of it, saving the collection and loading what was saved gives the same keys
\* with the same values.
C14_SaveThenLoadIsSame ==
    phase = "running" =>
       /\ load_scents_from_file(save_scents_to_file(custom_scents)) = custom_scents
       /\ load_blends_from_file(save_blends_to_file(blends)) = blends
       /\ load_containers_from_file(save_containers_to_file(containers)) = containers
       /\ load_inventory_from_file(save_inventory_to_file(inventory)) = inventory

\* a session with a custom scent at 1.50 per oz, two blends, a container and an
\* item, after a save of one of them
C14_Witness ==
    /\ phase = "running"
    /\ last.res = "ok"
    /\ steps = 2
    /\ \E k \in DOMAIN custom_scents : custom_scents[k] = Rat(3, 2)
    /\ Cardinality(DOMAIN blends) = 2
    /\ containers # EmptyDict
    /\ inventory # EmptyDict

----------------------------------------------------------------------------
(* Properties: a write that fails *)

\* the buttons that change a collection and save it
MUTATING == {"add_scent", "save_blend", "add_container", "delete_container",
             "create_item", "update_quantity", "delete_item"}

\* the run r changed a collection and saved it
Mutated(r) == r.op \in MUTATING /\ r.res = "ok"

\* the change of the run r is in the collections sc, cu, bl, co, inv
Holds(r, sc, cu, bl, co, inv) ==
    CASE r.op = "add_scent" -> r.key \in DOMAIN sc /\ r.key \in DOMAIN cu
      [] r.op = "save_blend" -> r.key \in DOMAIN bl
      [] r.op = "add_container" -> r.key \in DOMAIN co
      [] r.op = "delete_container" -> r.key \notin DOMAIN co
      [] r.op = "delete_item" -> r.key \notin DOMAIN inv
      [] OTHER -> r.key \in DOMAIN inv

\* C15: when the write of the document fails in a run of a mutating button, the
\* run shows the error of save_json, the session keeps running, the session
\* state holds the change of that run (the new quantity for "Update"), the
\* collections the button does not change are as they were, and the buttons
\* stay enabled while runs remain.
C15_FailedWriteKeepsSession ==
    [][/\ (disk # "ok" /\ steps' = steps + 1 /\ Mutated(last'))
          => /\ "error" \in DOMAIN last'
             /\ phase' = "running"
             /\ Holds(last', scents', custom_scents', blends', containers', inventory')
             /\ last'.op # "add_scent" => UNCHANGED <<scents, custom_scents>>
             /\ last'.op # "save_blend" => UNCHANGED blends
             /\ last'.op \notin {"add_container", "delete_container"}
                   => UNCHANGED containers
             /\ last'.op \notin {"create_item", "update_quantity", "delete_item"}
                   => UNCHANGED inventory
             /\ steps' < MaxSteps
                   => (ENABLED (\E c \in ContainerInputs : add_container(c)))'
       /\ \A id \in DOMAIN inventory, q \in 0..MaxQty :
             (disk # "ok" /\ update_quantity(id, q))
             => inventory'[id].quantity = q /\ "error" \in DOMAIN last']_vars

\* on a full disk an item was created and then deleted: both writes failed and
\* emptied inventory.json, and the session state followed the buttons
C15_Witness ==
    /\ disk = "full"
    /\ steps = 2
    /\ last.op = "delete_item" /\ "error" \in DOMAIN last
    /\ phase = "running"
    /\ inventory = EmptyDict
    /\ inventoryDoc = Corrupt

----------------------------------------------------------------------------
(* Properties: what the files hold after a run *)

\* the file doc was written in this run and reads back as the collection col
SavedAs(doc, read, col) == doc.kind = "object" /\ read = col

\* C16: with a disk that takes every write, after each run of a mutating button
\* the file of the collection it changed reads back as that collection of the
\* session state (scents.json as the tracked custom scents), and the other
\* three files are as they were.
C16_AffectedFileMirrorsSession ==
    [][(disk = "ok" /\ steps' = steps + 1 /\ Mutated(last'))
       => /\ last'.op = "add_scent"
               => /\ SavedAs(scentsDoc', load_scents_from_file(scentsDoc'), custom_scents')
                  /\ UNCHANGED <<blendsDoc, containersDoc, inventoryDoc>>
          /\ last'.op = "save_blend"
               => /\ SavedAs(blendsDoc', load_blends_from_file(blendsDoc'), blends')
                  /\ UNCHANGED <<scentsDoc, containersDoc, inventoryDoc>>
          /\ last'.op \in {"add_container", "delete_container"}
               => /\ SavedAs(containersDoc', load_containers_from_file(containersDoc'),
                             containers')
                  /\ UNCHANGED <<scentsDoc, blendsDoc, inventoryDoc>>
          /\ last'.op \in {"create_item", "update_quantity", "delete_item"}
               => /\ SavedAs(inventoryDoc', load_inventory_from_file(inventoryDoc'),
                             inventory')
                  /\ UNCHANGED <<scentsDoc, blendsDoc, containersDoc>>]_vars

\* a scent was added and then the sample container deleted: containers.json is
\* an empty object, scents.json holds both custom scents, the other files are
\* the ones found at start
C16_Witness ==
    /\ steps = 2
    /\ last.op = "delete_container" /\ last.res = "ok"
    /\ containers = EmptyDict
    /\ containersDoc = Object(EmptyDict)
    /\ Cardinality(DOMAIN custom_scents) = 2
    /\ load_scents_from_file(scentsDoc) = custom_scents
    /\ blendsDoc = UsedBlendsDoc
    /\ inventoryDoc = UsedInventoryDoc

----------------------------------------------------------------------------
(* Properties: custom scents over restarts *)

\* C17: in every session, the catalog maps each key that "Add scent to list"
\* was ever given, in this session or an earlier one, to the cost it was last
\* given, also when the key is that of a built-in scent.
C17_AddedScentsStayInEffect ==
    phase = "running" =>
       \A k \in DOMAIN added : k \in DOMAIN scents /\ scents[k] = added[k]

----------------------------------------------------------------------------
(* Properties: two sessions *)

\* C18: when two sessions that loaded the same containers.json have each
\* changed the containers, then at the end of the later write the file reads
\* back as the containers of the session that wrote it, whatever the order of
\* the steps of the two runs, and neither run has shown an error.
C18_LastWriterWins ==
    [][(/\ InFlight(containersDoc) /\ ~InFlight(containersDoc')
        /\ Mutated(last) /\ Mutated(peer.last))
       => /\ SavedAs(containersDoc', load_containers_from_file(containersDoc'), containers)
          /\ "error" \notin DOMAIN last
          /\ "error" \notin DOMAIN peer.last]_vars

====
